---- MODULE Spec2Model ----
(***************************************************************************)
(* Geofence validation and clock-state engine of the shift tracker:        *)
(*   PerimeterManager (lib/perimeter.ts, kept as src/unnamed/part_005)     *)
(*   ClockManager     (src/lib/clock.ts)                                   *)
(*   LocationService.calculateDistance (src/lib/location.ts)               *)
(*                                                                         *)
(* Numbers.  Coordinates are points of one meridian (longitude 0) whose    *)
(* latitude is written in metres of arc, so that the Haversine distance    *)
(* of two points is the absolute difference of their latitudes.  Times are *)
(* milliseconds since the epoch.  An optional value (a field that may be  *)
(* undefined or null) is a sequence: <<>> when absent, <<v>> when it is v. *)
(***************************************************************************)
EXTENDS Integers, Sequences, FiniteSets, TLC

VARIABLES
  perimeters,     \* PerimeterManager.perimeters: PerimeterSettings[]
  passedList,     \* the list as it was when it was last passed to setPerimeters
  activeShifts,   \* ClockManager.activeShifts: Map<userId, ActiveShift>
  shiftHistory,   \* ClockManager.shiftHistory: ClockEvent[]
  now,            \* the wall clock read by Date.now() / new Date()
  pending,        \* the clock operations in flight: promises not yet resolved
  idsDrawn,       \* how many random id suffixes Math.random() has produced
  query,          \* the last PerimeterManager call made directly, with its result
  lastLocation,        \* BackgroundGeofenceService.lastLocation
  lastPerimeterState,  \* BackgroundGeofenceService.lastPerimeterState
  events,              \* BackgroundGeofenceService.events: RegionMonitoringEvent[]
  timeEntries,         \* BackgroundGeofenceService.timeEntries: TimeEntry[]
  observations,   \* the simulateLocationUpdate calls made, in order, and their promises
  isMonitoring,        \* BackgroundGeofenceService.isMonitoring
  monitoringInterval,  \* BackgroundGeofenceService.monitoringInterval: a timer or null
  intervals,      \* the interval timers set and not cleared
  starting,       \* the calls of startRegionMonitoring awaiting registerBackgroundFetch
  startsMade,     \* how many calls of startRegionMonitoring went past the guard
  permissionCache,     \* LocationService.permissionCache: LocationPermissionState | null
  pendingRequests,     \* how many position requests of requestPermissionSafely are in flight
  requestsIssued,      \* how many position requests it has issued
  latestRequest,       \* the position request it issued last, with the cache it saw
  failedSinceGrant     \* requests settled without a position since the last one that got one

vars == <<perimeters, passedList, activeShifts, shiftHistory, now, pending, idsDrawn, query,
          lastLocation, lastPerimeterState, events, timeEntries, observations,
          isMonitoring, monitoringInterval, intervals, starting, startsMade,
          permissionCache, pendingRequests, requestsIssued, latestRequest,
          failedSinceGrant>>

registryVars == <<perimeters, passedList>>

ledgerVars == <<activeShifts, shiftHistory, now, pending, idsDrawn>>

detectorVars == <<lastLocation, lastPerimeterState, events, timeEntries, observations>>

monitorVars == <<isMonitoring, monitoringInterval, intervals, starting, startsMade>>

permissionVars == <<permissionCache, pendingRequests, requestsIssued,
                    latestRequest, failedSinceGrant>>

-----------------------------------------------------------------------------
(* JavaScript values *)

Undefined == <<>>

Null == <<>>

Some(v) == <<v>>

Get(x) == x[1]

\* JavaScript truthiness of an optional number
Truthy(x) == x # Undefined /\ Get(x) # 0

\* Infinity: larger than every distance and radius of the model.
Infinity == 1000000

\* x || d for an optional string
OrElse(x, d) == IF x = Undefined \/ x = Some("") THEN d ELSE Get(x)

\* a destructuring default: { x = d } = options
Default(x, d) == IF x = Undefined THEN d ELSE Get(x)

Abs(x) == IF x < 0 THEN -x ELSE x

-----------------------------------------------------------------------------
(* Bounds and input sets *)

\* longest list handed to setPerimeters
MaxPerimeters == 2

PerimeterMain == [centerLatitude |-> 0, centerLongitude |-> 0,
                  radiusInMeters |-> 100, name |-> Some("Main")]

PerimeterAnnex == [centerLatitude |-> 240, centerLongitude |-> 0,
                   radiusInMeters |-> 100, name |-> Undefined]

PerimeterCampus == [centerLatitude |-> 300, centerLongitude |-> 0,
                    radiusInMeters |-> 500, name |-> Some("Campus")]

PerimeterCatalogue == {PerimeterMain, PerimeterAnnex, PerimeterCampus}

\* every list without repetition of at most MaxPerimeters catalogue entries
PerimeterLists ==
  UNION {{l \in [1..n -> PerimeterCatalogue] :
            \A i, j \in 1..n : i # j => l[i] # l[j]} : n \in 0..MaxPerimeters}

Latitudes == {0, 100, 101, 120, 150}

Accuracies == {Undefined, Some(0), Some(10), Some(50), Some(51), Some(100)}

Points == [latitude : Latitudes, longitude : {0}, accuracy : Accuracies]

OptionSets == [allowBuffer : {Undefined, Some(0), Some(50)},
               requireHighAccuracy : {Undefined, Some(TRUE), Some(FALSE)},
               accuracyThreshold : {Undefined, Some(10), Some(50)}]

\* options = {} : every field takes its default
NoOptions == [allowBuffer |-> Undefined, requireHighAccuracy |-> Undefined,
              accuracyThreshold |-> Undefined]

Operations == {"clock_in", "clock_out"}

-----------------------------------------------------------------------------
(* LocationService.calculateDistance *)

calculateDistance(point1, point2) == Abs(point2.latitude - point1.latitude)

-----------------------------------------------------------------------------
(* PerimeterManager *)

isCloserOrEqual(distance, shortestDistance) == distance <= shortestDistance

\* the test of checkLocation's loop that replaces the closest perimeter so far
isCloser(distance, shortestDistance) == distance < shortestDistance

\* the for-loop of checkLocation, from index i on
RECURSIVE checkLocationScan(_, _, _, _)
checkLocationScan(location, i, closestPerimeter, shortestDistance) ==
  IF i > Len(perimeters)
  THEN [perimeter |-> closestPerimeter, distance |-> shortestDistance]
  ELSE LET perimeter == perimeters[i]
           distance == calculateDistance(
                         [latitude |-> location.latitude,
                          longitude |-> location.longitude],
                         [latitude |-> perimeter.centerLatitude,
                          longitude |-> perimeter.centerLongitude])
       IN IF isCloser(distance, shortestDistance)
          THEN checkLocationScan(location, i + 1, Some(perimeter), distance)
          ELSE checkLocationScan(location, i + 1, closestPerimeter, shortestDistance)

accuracyTooLowAtThreshold(location, requireHighAccuracy, accuracyThreshold) ==
  /\ requireHighAccuracy
  /\ Truthy(location.accuracy)
  /\ Get(location.accuracy) >= accuracyThreshold

accuracyTooLowAlways(location, requireHighAccuracy, accuracyThreshold) ==
  /\ Truthy(location.accuracy)
  /\ Get(location.accuracy) > accuracyThreshold

\* the accuracy test of checkLocation
accuracyTooLow(location, requireHighAccuracy, accuracyThreshold) ==
  /\ requireHighAccuracy
  /\ Truthy(location.accuracy)
  /\ Get(location.accuracy) > accuracyThreshold

isStrictlyWithinRadius(shortestDistance, effectiveRadius) ==
  shortestDistance < effectiveRadius

\* the containment test of checkLocation
isWithinRadius(shortestDistance, effectiveRadius) ==
  shortestDistance <= effectiveRadius

\* the result of checkLocation once its loop has found the closest perimeter
checkLocationResult(closest, allowBuffer) ==
  IF closest.perimeter = Null
  THEN [isWithin |-> FALSE, distance |-> Infinity, perimeter |-> Null,
        message |-> <<"Unable to determine work location.">>]
  ELSE LET effectiveRadius == Get(closest.perimeter).radiusInMeters + allowBuffer
           isWithin == isWithinRadius(closest.distance, effectiveRadius)
       IN [isWithin |-> isWithin,
           distance |-> closest.distance,
           perimeter |-> closest.perimeter,
           message |-> IF isWithin
                       THEN <<"Within work area", closest.distance>>
                       ELSE <<"Outside work area", closest.distance,
                              effectiveRadius>>]

checkLocation(location, options) ==
  IF accuracyTooLow(location, Default(options.requireHighAccuracy, TRUE),
                    Default(options.accuracyThreshold, 50))
  THEN [isWithin |-> FALSE, distance |-> Infinity, perimeter |-> Null,
        message |-> <<"Location accuracy too low", Get(location.accuracy)>>]
  ELSE IF Len(perimeters) = 0
  THEN [isWithin |-> FALSE, distance |-> Infinity, perimeter |-> Null,
        message |-> <<"No work perimeters configured. Contact your manager.">>]
  ELSE checkLocationResult(checkLocationScan(location, 1, Null, Infinity),
                           Default(options.allowBuffer, 0))

\* the for-loop of getClosestPerimeter, from index i on
RECURSIVE getClosestPerimeterScan(_, _, _, _)
getClosestPerimeterScan(location, i, closestPerimeter, shortestDistance) ==
  IF i > Len(perimeters)
  THEN [perimeter |-> closestPerimeter, distance |-> shortestDistance]
  ELSE LET perimeter == perimeters[i]
           distance == calculateDistance(
                         [latitude |-> location.latitude,
                          longitude |-> location.longitude],
                         [latitude |-> perimeter.centerLatitude,
                          longitude |-> perimeter.centerLongitude])
       IN IF distance < shortestDistance
          THEN getClosestPerimeterScan(location, i + 1, Some(perimeter), distance)
          ELSE getClosestPerimeterScan(location, i + 1, closestPerimeter,
                                       shortestDistance)

getClosestPerimeter(location) ==
  IF Len(perimeters) = 0
  THEN [perimeter |-> Null, distance |-> Infinity]
  ELSE getClosestPerimeterScan(location, 1, Null, Infinity)

clockInAllowedAnywhere(result) == TRUE

\* allowed, for clock_in: clock in requires being within perimeter
clockInAllowed(result) == result.isWithin

clockOutAllowedWithin(result) == result.isWithin

\* allowed, for clock_out: clock out can be done from anywhere
clockOutAllowed(result) == TRUE

\* the switch of validateClockOperation on the result of checkLocation
validationOf(operation, result) ==
  IF operation = "clock_in"
  THEN [allowed |-> clockInAllowed(result),
        message |-> IF result.isWithin
                    THEN <<"Ready to clock in at",
                           IF result.perimeter = Null THEN "work location"
                           ELSE OrElse(Get(result.perimeter).name, "work location")>>
                    ELSE result.message,
        perimeter |-> result.perimeter]
  ELSE IF operation = "clock_out"
  THEN [allowed |-> clockOutAllowed(result),
        message |-> IF result.isWithin
                    THEN <<"Clocking out from",
                           IF result.perimeter = Null THEN "work location"
                           ELSE OrElse(Get(result.perimeter).name, "work location")>>
                    ELSE <<"Clocking out from outside work area">>,
        perimeter |-> result.perimeter]
  ELSE [allowed |-> FALSE, message |-> <<"Invalid operation">>,
        perimeter |-> Null]

validateClockOperation(location, operation, options) ==
  validationOf(operation, checkLocation(location, options))

-----------------------------------------------------------------------------
(* Direct calls of the PerimeterManager *)

\* query holds one call and its result until the caller has used it
NoQuery == [fn |-> "none"]

\* a call that returned early is in pending: its promise is already resolved,
\* and its caller resumes before any other task or timer runs
Settling == \E call \in pending : ~call.success

UseResult ==
  /\ query # NoQuery
  /\ query' = NoQuery
  /\ UNCHANGED <<registryVars, ledgerVars, detectorVars, monitorVars, permissionVars>>

assignedOverFirst(list) ==
  IF perimeters # <<>> /\ list # <<>>
  THEN <<Head(perimeters)>> \o Tail(list)
  ELSE list

\* this.perimeters = perimeters: the field now refers to the array passed
assigned(list) == list

setPerimeters(list) ==
  /\ ~Settling
  /\ perimeters' = assigned(list)
  /\ passedList' = Some(list)
  /\ query' = NoQuery
  /\ UNCHANGED <<ledgerVars, detectorVars, monitorVars, permissionVars>>

CallCheckLocation(location, options) ==
  /\ query = NoQuery
  /\ query' = [fn |-> "checkLocation", location |-> location, options |-> options,
               result |-> checkLocation(location, options)]
  /\ UNCHANGED <<registryVars, ledgerVars, detectorVars, monitorVars, permissionVars>>

CallGetClosestPerimeter(location) ==
  /\ query = NoQuery
  /\ query' = [fn |-> "getClosestPerimeter", location |-> location,
               result |-> getClosestPerimeter(location)]
  /\ UNCHANGED <<registryVars, ledgerVars, detectorVars, monitorVars, permissionVars>>

CallValidateClockOperation(location, operation, options) ==
  /\ query = NoQuery
  /\ query' = [fn |-> "validateClockOperation", location |-> location,
               operation |-> operation, options |-> options,
               result |-> validateClockOperation(location, operation, options)]
  /\ UNCHANGED <<registryVars, ledgerVars, detectorVars, monitorVars, permissionVars>>

\* getPerimeters: a new array with the stored perimeter objects
getPerimeters ==
  /\ query = NoQuery
  /\ query' = [fn |-> "getPerimeters", result |-> perimeters]
  /\ UNCHANGED <<registryVars, ledgerVars, detectorVars, monitorVars, permissionVars>>

-----------------------------------------------------------------------------
(* The caller of PerimeterManager keeps the array it passed to setPerimeters *)
(* and the array getPerimeters returned, and may modify either.  The field   *)
(* perimeters refers to the array that was passed, so a change to that array *)
(* is a change to the field; the array getPerimeters returned is another     *)
(* array holding the same perimeter objects.                                 *)

\* the lists the caller passes, and the radius it writes into a perimeter
OwnedLists == {<<>>, <<PerimeterMain>>, <<PerimeterMain, PerimeterAnnex>>}

EditedRadii == {50}

\* list.push(perimeter) on the array that was passed to setPerimeters
callerPush(perimeter) ==
  /\ passedList # Null /\ query = NoQuery
  /\ Len(perimeters) < MaxPerimeters
  /\ \A i \in DOMAIN perimeters : perimeters[i] # perimeter
  /\ perimeters' = Append(perimeters, perimeter)
  /\ UNCHANGED <<passedList, query, ledgerVars, detectorVars, monitorVars, permissionVars>>

\* list.pop() on the array that was passed to setPerimeters
callerPop ==
  /\ passedList # Null /\ query = NoQuery
  /\ perimeters # <<>>
  /\ perimeters' = SubSeq(perimeters, 1, Len(perimeters) - 1)
  /\ UNCHANGED <<passedList, query, ledgerVars, detectorVars, monitorVars, permissionVars>>

\* list[i].radiusInMeters = radius on the array that was passed
callerEdit(i, radius) ==
  /\ passedList # Null /\ query = NoQuery
  /\ i \in DOMAIN perimeters
  /\ perimeters[i].radiusInMeters # radius
  /\ perimeters' = [perimeters EXCEPT ![i].radiusInMeters = radius]
  /\ UNCHANGED <<passedList, query, ledgerVars, detectorVars, monitorVars, permissionVars>>

\* returned.push(perimeter) on the array getPerimeters returned
copyPush(perimeter) ==
  /\ query.fn = "getPerimeters"
  /\ Len(query.result) < MaxPerimeters
  /\ \A i \in DOMAIN query.result : query.result[i] # perimeter
  /\ query' = [query EXCEPT !.result = Append(query.result, perimeter)]
  /\ UNCHANGED <<registryVars, ledgerVars, detectorVars, monitorVars, permissionVars>>

\* returned[i].radiusInMeters = radius on the array getPerimeters returned:
\* the object is the one the field holds at the same place
copyEdit(i, radius) ==
  /\ query.fn = "getPerimeters"
  /\ i \in DOMAIN query.result /\ i \in DOMAIN perimeters
  /\ query.result[i] = perimeters[i]
  /\ perimeters[i].radiusInMeters # radius
  /\ perimeters' = [perimeters EXCEPT ![i].radiusInMeters = radius]
  /\ query' = [query EXCEPT !.result[i].radiusInMeters = radius]
  /\ UNCHANGED <<passedList, ledgerVars, detectorVars, monitorVars, permissionVars>>

-----------------------------------------------------------------------------
(* ClockManager: inputs *)

\* most clock events created (successful clock operations)
MaxEvents == 2

\* most clock events created in the longer runs
MaxHistory == 3

\* most clock operations in flight at once
MaxInFlight == 2

\* most advances of the wall clock
MaxTicks == 1

MsPerHour == 1000 * 60 * 60

\* one advance of the wall clock: half an hour
TickMs == MsPerHour \div 2

Users == {"u1", "u2"}

Managers == {"m1", "m2"}

Reasons == {"overrun"}

Notes == {Undefined}

\* inside Main; 120 m from its centre (outside, inside with a 50 m buffer)
LedgerPoints == {[latitude |-> 0, longitude |-> 0, accuracy |-> Undefined],
                 [latitude |-> 120, longitude |-> 0, accuracy |-> Some(10)]}

LedgerOptions == {NoOptions}

LedgerPerimeterLists == {<<>>, <<PerimeterMain>>}

-----------------------------------------------------------------------------
(* ClockManager: values *)

\* new Date().toISOString(), and new Date(timestamp).getTime() back
toISOString(ms) == [iso |-> ms]

getTime(timestamp) == timestamp.iso

\* note?.trim() || undefined; a note is a sequence of words, " " is white space
RECURSIVE trimStart(_)
trimStart(text) ==
  IF text # <<>> /\ Head(text) = " " THEN trimStart(Tail(text)) ELSE text

RECURSIVE trimEnd(_)
trimEnd(text) ==
  IF text # <<>> /\ text[Len(text)] = " "
  THEN trimEnd(SubSeq(text, 1, Len(text) - 1))
  ELSE text

trimNote(note) ==
  IF note = Undefined THEN Undefined
  ELSE LET trimmed == trimEnd(trimStart(Get(note)))
       IN IF trimmed = <<>> THEN Undefined ELSE Some(trimmed)

\* validation.perimeter?.centerLatitude + ',' + validation.perimeter?.centerLongitude
perimeterIdOf(perimeter) ==
  IF perimeter = Null THEN <<Undefined, Undefined>>
  ELSE <<Some(Get(perimeter).centerLatitude), Some(Get(perimeter).centerLongitude)>>

perimeterNameOf(perimeter, fallback) ==
  IF perimeter = Null THEN fallback ELSE OrElse(Get(perimeter).name, fallback)

\* location.accuracy || 0
accuracyOrZero(location) ==
  IF Truthy(location.accuracy) THEN Get(location.accuracy) ELSE 0

\* Math.random().toString(36).substr(2, 9): a suffix never produced before
freshSuffix == idsDrawn

NoShifts == [u \in Users |-> Undefined]

-----------------------------------------------------------------------------
(* ClockManager.clockIn *)

existingShiftOfNone(userId) == Undefined

\* this.activeShifts.get(userId) in clockIn
existingShiftOf(userId) == activeShifts[userId]

storeShiftAfterDelay(userId, shift) == activeShifts

\* this.activeShifts.set(userId, shift)
storeShift(userId, shift) == [activeShifts EXCEPT ![userId] = Some(shift)]

pushAfterDelay(event) == shiftHistory

\* this.shiftHistory.push(event), in clockIn and in clockOut
push(event) == Append(shiftHistory, event)

clockInErrorLocationFirst(existingShift, validation) ==
  IF ~validation.allowed THEN Some("LOCATION_INVALID")
  ELSE IF existingShift # Undefined THEN Some("ALREADY_CLOCKED_IN")
  ELSE Undefined

\* the error clockIn returns early with, if any
clockInError(existingShift, validation) ==
  IF existingShift # Undefined THEN Some("ALREADY_CLOCKED_IN")
  ELSE IF ~validation.allowed THEN Some("LOCATION_INVALID")
  ELSE Undefined

\* the clock_in event clockIn creates
clockInEventOf(userId, location, note, validation, closest) ==
  [id |-> <<"clock_in", now, freshSuffix>>,
   userId |-> userId,
   type |-> "clock_in",
   timestamp |-> toISOString(now),
   location |-> location,
   note |-> trimNote(note),
   perimeterId |-> perimeterIdOf(validation.perimeter),
   perimeterName |-> perimeterNameOf(validation.perimeter, "Work Location"),
   validationData |->
     [isLocationValid |-> TRUE,
      distanceFromCenter |-> closest.distance,
      accuracy |-> accuracyOrZero(location),
      message |-> validation.message]]

\* the shift clockIn creates
shiftOf(userId, clockInEvent) ==
  [id |-> <<"shift", now, freshSuffix>>,
   userId |-> userId,
   clockIn |-> clockInEvent,
   clockOut |-> Undefined,
   status |-> "active",
   totalHours |-> Undefined,
   createdAt |-> toISOString(now),
   updatedAt |-> toISOString(now)]

clockInUncaught ==
  [result |-> [success |-> FALSE, message |-> Undefined,
               shift |-> Undefined, event |-> Undefined, error |-> Undefined],
   activeShifts |-> activeShifts,
   shiftHistory |-> shiftHistory,
   settled |-> "rejected"]

\* the catch block of clockIn
clockInCaught ==
  [result |-> [success |-> FALSE,
               message |-> <<"Failed to clock in. Please try again.">>,
               shift |-> Undefined, event |-> Undefined,
               error |-> Some("SYSTEM_ERROR")],
   activeShifts |-> activeShifts,
   shiftHistory |-> shiftHistory,
   settled |-> "fulfilled"]

clockInBodyStoringFirst(userId, error, validation, clockInEvent) ==
  IF error = Some("ALREADY_CLOCKED_IN")
  THEN [result |-> [success |-> FALSE,
                    message |-> <<"You are already clocked in. Please clock out first.">>,
                    shift |-> Undefined, event |-> Undefined,
                    error |-> Some("ALREADY_CLOCKED_IN")],
        activeShifts |-> activeShifts,
        shiftHistory |-> shiftHistory,
        settled |-> "fulfilled"]
  ELSE [result |-> [success |-> error = Undefined,
                    message |-> validation.message,
                    shift |-> Undefined, event |-> Undefined,
                    error |-> error],
        activeShifts |-> storeShift(userId, shiftOf(userId, clockInEvent)),
        shiftHistory |-> push(clockInEvent),
        settled |-> "fulfilled"]

\* the body of clockIn, given what it has looked up
clockInBody(userId, error, validation, clockInEvent) ==
  IF error = Some("ALREADY_CLOCKED_IN")
  THEN [result |-> [success |-> FALSE,
                    message |-> <<"You are already clocked in. Please clock out first.">>,
                    shift |-> Undefined, event |-> Undefined,
                    error |-> Some("ALREADY_CLOCKED_IN")],
        activeShifts |-> activeShifts,
        shiftHistory |-> shiftHistory,
        settled |-> "fulfilled"]
  ELSE IF error = Some("LOCATION_INVALID")
  THEN [result |-> [success |-> FALSE,
                    message |-> validation.message,
                    shift |-> Undefined, event |-> Undefined,
                    error |-> Some("LOCATION_INVALID")],
        activeShifts |-> activeShifts,
        shiftHistory |-> shiftHistory,
        settled |-> "fulfilled"]
  ELSE [result |-> [success |-> TRUE,
                    message |-> <<"Successfully clocked in at",
                                  perimeterNameOf(validation.perimeter,
                                                  "work location")>>,
                    shift |-> Some(shiftOf(userId, clockInEvent)),
                    event |-> Some(clockInEvent),
                    error |-> Undefined],
        activeShifts |-> storeShift(userId, shiftOf(userId, clockInEvent)),
        shiftHistory |-> push(clockInEvent),
        settled |-> "fulfilled"]

clockInValidated(userId, location, note, validation) ==
  clockInBody(userId,
              clockInError(existingShiftOf(userId), validation),
              validation,
              clockInEventOf(userId, location, note, validation,
                             getClosestPerimeter(location)))

\* what clockIn decides and stores before it awaits the simulated delay
clockInOutcome(userId, location, note, options) ==
  clockInValidated(userId, location, note,
                   validateClockOperation(location, "clock_in", options))

\* clockIn when perimeterManager.validateClockOperation raises: the exception
\* is caught, unless the call had returned before the validation
clockInThrown(userId, existingShift) ==
  IF existingShift # Undefined
  THEN clockInBody(userId, Some("ALREADY_CLOCKED_IN"), Undefined, Undefined)
  ELSE clockInCaught

\* clockIn with a perimeterManager that raises or answers
clockInCall(userId, location, note, options, raises) ==
  IF raises THEN clockInThrown(userId, existingShiftOf(userId))
  ELSE clockInOutcome(userId, location, note, options)

-----------------------------------------------------------------------------
(* ClockManager.clockOut *)

\* this.activeShifts.get(userId) in clockOut
activeShiftOf(userId) == activeShifts[userId]

deleteShiftAfterDelay(userId) == activeShifts

\* this.activeShifts.delete(userId)
deleteShift(userId) == [activeShifts EXCEPT ![userId] = Undefined]

totalHoursBackwards(clockInTimestamp, clockOutTimestamp) ==
  [ms |-> getTime(clockInTimestamp) - getTime(clockOutTimestamp),
   per |-> MsPerHour]

\* (clockOutTime.getTime() - clockInTime.getTime()) / (1000 * 60 * 60), a fraction
totalHoursOf(clockInTimestamp, clockOutTimestamp) ==
  [ms |-> getTime(clockOutTimestamp) - getTime(clockInTimestamp),
   per |-> MsPerHour]

\* the clock_out event clockOut creates
clockOutEventOf(userId, location, note, validation, closest) ==
  [id |-> <<"clock_out", now, freshSuffix>>,
   userId |-> userId,
   type |-> "clock_out",
   timestamp |-> toISOString(now),
   location |-> location,
   note |-> trimNote(note),
   perimeterId |-> perimeterIdOf(validation.perimeter),
   perimeterName |-> perimeterNameOf(validation.perimeter, "Unknown Location"),
   validationData |->
     [isLocationValid |-> validation.allowed,
      distanceFromCenter |-> closest.distance,
      accuracy |-> accuracyOrZero(location),
      message |-> validation.message]]

\* the shift clockOut returns
completedShiftOf(activeShift, clockOutEvent, totalHours) ==
  [activeShift EXCEPT !.clockOut = Some(clockOutEvent),
                      !.status = "completed",
                      !.totalHours = Some(totalHours),
                      !.updatedAt = toISOString(now)]

clockOutUncaught ==
  [result |-> [success |-> FALSE, message |-> Undefined,
               shift |-> Undefined, event |-> Undefined, error |-> Undefined],
   activeShifts |-> activeShifts,
   shiftHistory |-> shiftHistory,
   settled |-> "rejected"]

\* the catch block of clockOut
clockOutCaught ==
  [result |-> [success |-> FALSE,
               message |-> <<"Failed to clock out. Please try again.">>,
               shift |-> Undefined, event |-> Undefined,
               error |-> Some("SYSTEM_ERROR")],
   activeShifts |-> activeShifts,
   shiftHistory |-> shiftHistory,
   settled |-> "fulfilled"]

\* the body of clockOut, given what it has looked up
clockOutBody(userId, activeShift, clockOutEvent) ==
  IF activeShift = Undefined
  THEN [result |-> [success |-> FALSE,
                    message |-> <<"You are not currently clocked in.">>,
                    shift |-> Undefined, event |-> Undefined,
                    error |-> Some("NOT_CLOCKED_IN")],
        activeShifts |-> activeShifts,
        shiftHistory |-> shiftHistory,
        settled |-> "fulfilled"]
  ELSE LET totalHours ==
             totalHoursOf(Get(activeShift).clockIn.timestamp,
                          clockOutEvent.timestamp)
       IN [result |-> [success |-> TRUE,
                       message |-> <<"Successfully clocked out. Total time:",
                                     totalHours>>,
                       shift |-> Some(completedShiftOf(Get(activeShift),
                                                       clockOutEvent, totalHours)),
                       event |-> Some(clockOutEvent),
                       error |-> Undefined],
           activeShifts |-> deleteShift(userId),
           shiftHistory |-> push(clockOutEvent),
           settled |-> "fulfilled"]

\* what clockOut decides and stores before it awaits the simulated delay
clockOutOutcome(userId, location, note, options) ==
  clockOutBody(userId, activeShiftOf(userId),
               clockOutEventOf(userId, location, note,
                               validateClockOperation(location, "clock_out", options),
                               getClosestPerimeter(location)))

\* clockOut when perimeterManager.validateClockOperation raises: the exception
\* is caught, unless the call had returned before the validation
clockOutThrown(userId, activeShift) ==
  IF activeShift = Undefined
  THEN clockOutBody(userId, activeShift, Undefined)
  ELSE clockOutCaught

\* clockOut with a perimeterManager that raises or answers
clockOutCall(userId, location, note, options, raises) ==
  IF raises THEN clockOutThrown(userId, activeShiftOf(userId))
  ELSE clockOutOutcome(userId, location, note, options)

-----------------------------------------------------------------------------
(* ClockManager.forceClockOut *)

\* this.activeShifts.get(userId) in forceClockOut
forcedShiftOf(userId) == activeShifts[userId]

forcedNoteWithoutReason(reason) == Some(<<"Force clock out by manager: ">>)

\* `Force clock out by manager: ${reason}`
forcedNote(reason) == Some(<<"Force clock out by manager: ", reason>>)

forceClockOutOutcome(userId, managerUserId, reason) ==
  IF forcedShiftOf(userId) = Undefined
  THEN [result |-> [success |-> FALSE,
                    message |-> <<"User is not currently clocked in.">>,
                    shift |-> Undefined, event |-> Undefined,
                    error |-> Some("NOT_CLOCKED_IN")],
        activeShifts |-> activeShifts,
        shiftHistory |-> shiftHistory,
        settled |-> "fulfilled"]
  ELSE clockOutOutcome(userId,
                       [latitude |-> 0, longitude |-> 0, accuracy |-> Some(0)],
                       forcedNote(reason),
                       NoOptions)

\* forceClockOut with a perimeterManager that raises or answers: the
\* exception is raised and caught within the clockOut it calls
forceClockOutCall(userId, managerUserId, reason, raises) ==
  IF raises /\ forcedShiftOf(userId) # Undefined
  THEN clockOutThrown(userId, activeShiftOf(userId))
  ELSE forceClockOutOutcome(userId, managerUserId, reason)

-----------------------------------------------------------------------------
(* ClockManager: the operations as steps.  A call runs without interruption *)
(* up to its await (or its early return), so its state change is one step;  *)
(* its promise resolves in a later step, Return.                            *)


\* a call in flight: the promise it returned and the value it will resolve to
Awaited(op, userId, outcome) ==
  [op |-> op, userId |-> userId,
   success |-> outcome.result.success,
   error |-> outcome.result.error,
   settled |-> outcome.settled,
   eventId |-> IF outcome.result.event = Undefined THEN Undefined
               ELSE Some(Get(outcome.result.event).id)]

\* a successful operation has drawn one random suffix (shared by its ids)
Drawn(outcome) == IF outcome.result.success THEN idsDrawn + 1 ELSE idsDrawn

\* a task may call: no caller is about to resume, and the bounds of the model
\* (events created, operations waiting for their delay) allow the call
CanIssue(outcome) ==
  /\ ~Settling
  /\ Drawn(outcome) <= MaxEvents
  /\ outcome.result.success => Cardinality(pending) < MaxInFlight

\* what a call has done when it reaches its await or its early return
Issued(op, userId, outcome) ==
  /\ activeShifts' = outcome.activeShifts
  /\ shiftHistory' = outcome.shiftHistory
  /\ pending' = pending \cup {Awaited(op, userId, outcome)}
  /\ idsDrawn' = Drawn(outcome)

\* a call up to its await or its early return
Issue(op, userId, outcome) ==
  /\ CanIssue(outcome)
  /\ Issued(op, userId, outcome)

clockIn(userId, location, note, options, raises) ==
  /\ Issue("clockIn", userId,
           clockInCall(userId, location, note, options, raises))
  /\ UNCHANGED <<registryVars, now, query, detectorVars, monitorVars, permissionVars>>

clockOut(userId, location, note, options, raises) ==
  /\ Issue("clockOut", userId,
           clockOutCall(userId, location, note, options, raises))
  /\ UNCHANGED <<registryVars, now, query, detectorVars, monitorVars, permissionVars>>

forceClockOut(userId, managerUserId, reason, raises) ==
  /\ Issue("forceClockOut", userId,
           forceClockOutCall(userId, managerUserId, reason, raises))
  /\ UNCHANGED <<registryVars, now, query, detectorVars, monitorVars, permissionVars>>

\* the same calls in the longer runs, of MaxHistory events
CanIssueLong(outcome) ==
  /\ ~Settling
  /\ Drawn(outcome) <= MaxHistory
  /\ outcome.result.success => Cardinality(pending) < MaxInFlight

clockInLong(userId, location, note, options, raises) ==
  /\ CanIssueLong(clockInCall(userId, location, note, options, raises))
  /\ Issued("clockIn", userId,
            clockInCall(userId, location, note, options, raises))
  /\ UNCHANGED <<registryVars, now, query, detectorVars, monitorVars, permissionVars>>

clockOutLong(userId, location, note, options, raises) ==
  /\ CanIssueLong(clockOutCall(userId, location, note, options, raises))
  /\ Issued("clockOut", userId,
            clockOutCall(userId, location, note, options, raises))
  /\ UNCHANGED <<registryVars, now, query, detectorVars, monitorVars, permissionVars>>

\* a pending promise resolves: at once on an early return; after the delay of
\* 500 ms otherwise, and the timers of equal delay fire in the order they were set
Return(call) ==
  /\ call \in pending
  /\ call.success =>
       /\ ~Settling
       /\ \A other \in pending : Get(call.eventId)[3] <= Get(other.eventId)[3]
  /\ pending' = pending \ {call}
  /\ UNCHANGED <<registryVars, activeShifts, shiftHistory, now, idsDrawn, query, detectorVars, monitorVars, permissionVars>>

\* Array.prototype.sort by descending timestamp: stable, and in place
RECURSIVE insertByTimestampDesc(_, _)
insertByTimestampDesc(sorted, event) ==
  IF sorted = <<>> THEN <<event>>
  ELSE IF getTime(Head(sorted).timestamp) >= getTime(event.timestamp)
  THEN <<Head(sorted)>> \o insertByTimestampDesc(Tail(sorted), event)
  ELSE <<event>> \o sorted

RECURSIVE sortByTimestampDesc(_)
sortByTimestampDesc(array) ==
  IF array = <<>> THEN <<>>
  ELSE insertByTimestampDesc(
         sortByTimestampDesc(SubSeq(array, 1, Len(array) - 1)),
         array[Len(array)])

getAllShiftHistory ==
  /\ ~Settling
  /\ shiftHistory' = sortByTimestampDesc(shiftHistory)
  /\ UNCHANGED <<registryVars, activeShifts, now, pending, idsDrawn, query, detectorVars, monitorVars, permissionVars>>

clearAllData ==
  /\ ~Settling
  /\ activeShifts' = NoShifts
  /\ shiftHistory' = <<>>
  /\ UNCHANGED <<registryVars, now, pending, idsDrawn, query, detectorVars, monitorVars, permissionVars>>

\* the wall clock advances by half an hour: the operations in flight, which
\* resolve after 500 ms, have returned by then
Tick ==
  /\ now < MaxTicks * TickMs
  /\ pending = {}
  /\ now' = now + TickMs
  /\ UNCHANGED <<registryVars, activeShifts, shiftHistory, pending, idsDrawn, query, detectorVars, monitorVars, permissionVars>>

-----------------------------------------------------------------------------
(* BackgroundGeofenceService: the crossing detector.  simulateLocationUpdate *)
(* checks the location, detects and records the region events, and awaits   *)
(* their processing (a simulated database write behind a timer) before it   *)
(* stores the location and its containment.                                 *)

\* most location updates submitted
MaxObservations == 3

\* the locations observed: at the centre of PerimeterMain and outside it, with
\* an accuracy within the default threshold and one beyond it
ObservedPoints ==
  {p \in Points : /\ p.latitude \in {0, 120}
                   /\ p.accuracy \in {Some(10), Some(100)}}

CrossingPerimeterLists == {<<>>, <<PerimeterMain>>}

stateChangedOrUnknown(lastState, isInPerimeter) ==
  \/ lastState = Null
  \/ Get(lastState) # isInPerimeter

\* the test of detectRegionEvents: the perimeter state changed
stateChanged(lastState, isInPerimeter) ==
  /\ lastState # Null
  /\ Get(lastState) # isInPerimeter

\* the event detectRegionEvents builds
regionEventOf(location, eventType, closest) ==
  [id |-> <<"region", eventType, now>>,
   type |-> eventType,
   timestamp |-> now,
   location |-> location,
   perimeterId |-> IF closest.perimeter = Null THEN Undefined
                   ELSE Some("closest_perimeter"),
   perimeter |-> closest.perimeter]

\* detectRegionEvents(location, isInPerimeter): the events it returns
detectRegionEvents(location, isInPerimeter) ==
  IF stateChanged(lastPerimeterState, isInPerimeter)
  THEN <<regionEventOf(location, IF isInPerimeter THEN "enter" ELSE "exit",
                       getClosestPerimeter(location))>>
  ELSE <<>>

\* the TimeEntry simulatePrismaWrite stores for an event
timeEntryOf(event, location) ==
  [userId |-> "simulated_user",
   type |-> IF event.type = "enter" THEN "clock_in" ELSE "clock_out",
   timestamp |-> toISOString(event.timestamp),
   locationLat |-> location.latitude,
   locationLon |-> location.longitude,
   accuracy |-> location.accuracy,
   isValidLocation |-> (event.type = "enter"),
   perimeterId |-> event.perimeterId,
   backgroundTriggered |-> TRUE]

RECURSIVE timeEntriesOf(_, _)
timeEntriesOf(detected, location) ==
  IF detected = <<>> THEN <<>>
  ELSE <<timeEntryOf(Head(detected), location)>>
         \o timeEntriesOf(Tail(detected), location)

\* an earlier simulateLocationUpdate is still waiting in processRegionEvents
Processing == \E k \in DOMAIN observations : observations[k].status = "pending"

\* a call of simulateLocationUpdate, as the caller sees it, with the registry
\* at the time of the call
observationOf(location, isInPerimeter, detected, notifyRaised, status) ==
  [location |-> location,
   isInPerimeter |-> isInPerimeter,
   detected |-> detected,
   notifyRaised |-> notifyRaised,
   registry |-> perimeters,
   overlapped |-> Processing,
   status |-> status]

\* simulateLocationUpdate when perimeterManager.checkLocation raises: nothing
\* catches the exception, and the promise of the call is rejected
simulateLocationUpdateThrown(location) ==
  /\ observations' = Append(observations,
                            observationOf(location, Undefined, <<>>, FALSE,
                                          "rejected"))
  /\ UNCHANGED <<lastLocation, lastPerimeterState, events, timeEntries>>

\* processRegionEvents reaches no simulatePrismaWrite: there is no event, or
\* the notification of the event raised and the catch block skipped the write
writeSkipped(detected, notifyRaises) == detected = <<>> \/ notifyRaises

\* simulateLocationUpdate up to the end of processRegionEvents when no write
\* is awaited (the call then goes on to store the state before any other
\* task runs), and up to the timer of the write otherwise
simulateLocationUpdateChecked(location, isInPerimeter, detected, notifyRaises) ==
  /\ events' = events \o detected
  /\ IF writeSkipped(detected, notifyRaises)
     THEN /\ lastLocation' = Some(location)
          /\ lastPerimeterState' = Some(isInPerimeter)
          /\ observations' =
               Append(observations,
                      observationOf(location, Some(isInPerimeter), detected,
                                    detected # <<>> /\ notifyRaises, "resolved"))
     ELSE /\ observations' =
               Append(observations,
                      observationOf(location, Some(isInPerimeter), detected,
                                    FALSE, "pending"))
          /\ UNCHANGED <<lastLocation, lastPerimeterState>>
  /\ UNCHANGED timeEntries

simulateLocationUpdate(location, raises, notifyRaises) ==
  /\ Len(observations) < MaxObservations
  /\ IF raises
     THEN simulateLocationUpdateThrown(location)
     ELSE simulateLocationUpdateChecked(
            location,
            checkLocation(location, NoOptions).isWithin,
            detectRegionEvents(location, checkLocation(location, NoOptions).isWithin),
            notifyRaises)
  /\ UNCHANGED <<registryVars, ledgerVars, query, monitorVars, permissionVars>>

\* the timer of simulatePrismaWrite fires: the time entry is stored, and
\* simulateLocationUpdate stores the location and its containment
ResumeLocationUpdate(k) ==
  /\ k \in DOMAIN observations
  /\ observations[k].status = "pending"
  /\ timeEntries' = timeEntries \o timeEntriesOf(observations[k].detected,
                                                 observations[k].location)
  /\ lastLocation' = Some(observations[k].location)
  /\ lastPerimeterState' = observations[k].isInPerimeter
  /\ observations' = [observations EXCEPT ![k].status = "resolved"]
  /\ UNCHANGED <<registryVars, ledgerVars, query, events, monitorVars, permissionVars>>

\* clearData(), entered in the log of calls
clearData ==
  /\ Len(observations) < MaxObservations
  /\ events' = <<>>
  /\ timeEntries' = <<>>
  /\ lastLocation' = Null
  /\ lastPerimeterState' = Null
  /\ observations' = Append(observations,
                            observationOf(Undefined, Undefined, <<>>, FALSE,
                                          "cleared"))
  /\ UNCHANGED <<registryVars, ledgerVars, query, monitorVars, permissionVars>>

-----------------------------------------------------------------------------
(* BackgroundGeofenceService: region monitoring.  startRegionMonitoring sets *)
(* isMonitoring, awaits registerBackgroundFetch when background fetch is     *)
(* enabled, and then sets the interval timer; stopRegionMonitoring runs      *)
(* without interruption.                                                     *)

\* most calls of startRegionMonitoring that go past the guard
MaxStarts == 2

\* the drift of the simulated GPS between two background checks, in metres
Drifts == {0, 5}

\* setInterval(...) at the end of startRegionMonitoring: the timer of the call
\* is live and the field refers to it
setMonitoringInterval(id) ==
  /\ intervals' = intervals \cup {id}
  /\ monitoringInterval' = Some(id)

startRegionMonitoring(enableBackgroundFetch) ==
  /\ IF isMonitoring
     THEN UNCHANGED monitorVars
     ELSE /\ startsMade < MaxStarts
          /\ isMonitoring' = TRUE
          /\ startsMade' = startsMade + 1
          /\ IF enableBackgroundFetch
             THEN /\ starting' = starting \cup {startsMade + 1}
                  /\ UNCHANGED <<intervals, monitoringInterval>>
             ELSE /\ setMonitoringInterval(startsMade + 1)
                  /\ UNCHANGED starting
  /\ UNCHANGED <<registryVars, ledgerVars, query, detectorVars, permissionVars>>

\* registerBackgroundFetch has settled: startRegionMonitoring sets its timer
\* and returns true, or, when the registration raised, clears isMonitoring
\* and returns false
ResumeStart(id, raises) ==
  /\ id \in starting
  /\ starting' = starting \ {id}
  /\ IF raises
     THEN /\ isMonitoring' = FALSE
          /\ UNCHANGED <<intervals, monitoringInterval>>
     ELSE /\ setMonitoringInterval(id)
          /\ UNCHANGED isMonitoring
  /\ UNCHANGED <<startsMade, registryVars, ledgerVars, query, detectorVars, permissionVars>>

\* clearInterval(this.monitoringInterval)
cleared(timer) == intervals \ {timer}

stopRegionMonitoring ==
  /\ isMonitoring' = FALSE
  /\ IF monitoringInterval # Null
     THEN /\ intervals' = cleared(Get(monitoringInterval))
          /\ monitoringInterval' = Null
     ELSE UNCHANGED <<intervals, monitoringInterval>>
  /\ UNCHANGED <<starting, startsMade, registryVars, ledgerVars, query, detectorVars, permissionVars>>

\* the location performBackgroundLocationCheck simulates: the last one with
\* a drift, or the default location
backgroundLocation(drift) ==
  IF lastLocation # Null
  THEN [latitude |-> Get(lastLocation).latitude + drift,
        longitude |-> Get(lastLocation).longitude,
        accuracy |-> Some(20)]
  ELSE [latitude |-> 0, longitude |-> 0, accuracy |-> Some(20)]

\* a live interval timer fires: performBackgroundLocationCheck
performBackgroundLocationCheck(timer, drift, notifyRaises) ==
  /\ timer \in intervals
  /\ Len(observations) < MaxObservations
  /\ simulateLocationUpdateChecked(
       backgroundLocation(drift),
       checkLocation(backgroundLocation(drift), NoOptions).isWithin,
       detectRegionEvents(backgroundLocation(drift),
                          checkLocation(backgroundLocation(drift), NoOptions).isWithin),
       notifyRaises)
  /\ UNCHANGED <<registryVars, ledgerVars, query, monitorVars, permissionVars>>

-----------------------------------------------------------------------------
(* LocationService (enhanced): ensureLocationAccess checks the permission     *)
(* state, from the cache while it is valid and from the Permissions API       *)
(* otherwise, and calls requestPermissionSafely when it is undetermined;      *)
(* requestPermissionSafely issues a position request unless it is rate        *)
(* limited, and updates the cache when the request settles.                   *)

\* most position requests issued
MaxRequests == 4

\* most position requests in flight
MaxPendingRequests == 3

\* most short waits in a row
MaxShortWaits == 2

\* cacheTimeout: 5 * 60 * 1000
cacheTimeout == 5 * 60 * 1000

maxRetryAttempts == 3

backoffMultiplier == 2000

\* the waits between the calls: a short one, half the backoff after
\* maxRetryAttempts attempts, and the life of the cache
ShortWaitMs == 2 * backoffMultiplier

\* what navigator.permissions.query answers
PermissionStates == {"granted", "denied", "prompt"}

\* how a position request settles; POSITION_UNAVAILABLE is handled as TIMEOUT is
RequestOutcomes == {"granted", "PERMISSION_DENIED", "TIMEOUT"}

\* updatePermissionCache(status, incrementAttempt)
updatePermissionCache(status, incrementAttempt) ==
  IF permissionCache # Null
  THEN Some([status |-> status,
             lastChecked |-> now,
             attempts |-> IF status = "granted" THEN 0
                          ELSE IF incrementAttempt
                          THEN Get(permissionCache).attempts + 1
                          ELSE Get(permissionCache).attempts])
  ELSE Some([status |-> status,
             lastChecked |-> now,
             attempts |-> IF incrementAttempt THEN 1 ELSE 0])

\* isCacheValid()
isCacheValid ==
  /\ permissionCache # Null
  /\ now - Get(permissionCache).lastChecked < cacheTimeout

\* the permission state checkCurrentPermissionState returns
currentPermissionState(queried) ==
  IF isCacheValid
  THEN IF Get(permissionCache).status = "unknown" THEN "undetermined"
       ELSE Get(permissionCache).status
  ELSE IF queried = "prompt" THEN "undetermined" ELSE queried

\* the cache checkCurrentPermissionState leaves
checkedCache(queried) ==
  IF isCacheValid THEN permissionCache
  ELSE updatePermissionCache(currentPermissionState(queried), FALSE)

backoffTimeConstant(attempts) == backoffMultiplier

\* this.options.backoffMultiplier * Math.pow(2, cache.attempts - 1)
backoffTime(attempts) == backoffMultiplier * 2 ^ (attempts - 1)

\* requestPermissionSafely returns the cached status without a request
rateLimited(cache) ==
  /\ cache # Null
  /\ Get(cache).attempts >= maxRetryAttempts
  /\ now - Get(cache).lastChecked < backoffTime(Get(cache).attempts)

\* a position request as requestPermissionSafely issues it, with the cache
\* it was issued under and the time of the request before it
positionRequestOf(cache) ==
  [at |-> now,
   previousAt |-> IF latestRequest = Null THEN Null
                  ELSE Some(Get(latestRequest).at),
   attempts |-> Get(cache).attempts,
   sinceChecked |-> now - Get(cache).lastChecked,
   failedBefore |-> failedSinceGrant]

\* ensureLocationAccess up to the position request of requestPermissionSafely,
\* or to its return when no request is issued
ensureLocationAccess(queried) ==
  /\ permissionCache' = checkedCache(queried)
  /\ IF /\ currentPermissionState(queried) = "undetermined"
        /\ ~rateLimited(checkedCache(queried))
     THEN /\ requestsIssued < MaxRequests
          /\ pendingRequests < MaxPendingRequests
          /\ requestsIssued' = requestsIssued + 1
          /\ pendingRequests' = pendingRequests + 1
          /\ latestRequest' = Some(positionRequestOf(checkedCache(queried)))
     ELSE UNCHANGED <<requestsIssued, pendingRequests, latestRequest>>
  /\ UNCHANGED <<registryVars, ledgerVars, query, detectorVars, monitorVars,
                 failedSinceGrant>>

\* a position request settles: requestPermissionSafely updates the cache on
\* a position and on PERMISSION_DENIED, and leaves it alone otherwise
settlePositionRequest(outcome) ==
  /\ pendingRequests > 0
  /\ pendingRequests' = pendingRequests - 1
  /\ permissionCache' =
       IF outcome = "granted" THEN updatePermissionCache("granted", TRUE)
       ELSE IF outcome = "PERMISSION_DENIED"
       THEN updatePermissionCache("denied", TRUE)
       ELSE permissionCache
  /\ failedSinceGrant' = IF outcome = "granted" THEN 0 ELSE failedSinceGrant + 1
  /\ UNCHANGED <<registryVars, ledgerVars, query, detectorVars, monitorVars,
                 requestsIssued, latestRequest>>

\* clearCache()
clearCache ==
  /\ permissionCache # Null
  /\ permissionCache' = Null
  /\ UNCHANGED <<registryVars, ledgerVars, query, detectorVars, monitorVars,
                 pendingRequests, requestsIssued, latestRequest,
                 failedSinceGrant>>

\* time passes between two calls
Elapse(ms) ==
  /\ IF ms = cacheTimeout THEN now < cacheTimeout
     ELSE now % cacheTimeout < MaxShortWaits * ShortWaitMs
  /\ now' = now + ms
  /\ UNCHANGED <<registryVars, activeShifts, shiftHistory, pending, idsDrawn,
                 query, detectorVars, monitorVars, permissionVars>>

-----------------------------------------------------------------------------
(* Specifications *)

Init ==
  /\ perimeters = <<>>
  /\ passedList = Null
  /\ activeShifts = NoShifts
  /\ shiftHistory = <<>>
  /\ now = 0
  /\ pending = {}
  /\ idsDrawn = 0
  /\ query = NoQuery
  /\ lastLocation = Null
  /\ lastPerimeterState = Null
  /\ events = <<>>
  /\ timeEntries = <<>>
  /\ observations = <<>>
  /\ isMonitoring = FALSE
  /\ monitoringInterval = Null
  /\ intervals = {}
  /\ starting = {}
  /\ startsMade = 0
  /\ permissionCache = Null
  /\ pendingRequests = 0
  /\ requestsIssued = 0
  /\ latestRequest = Null
  /\ failedSinceGrant = 0

NextPerimeter ==
  \/ \E list \in PerimeterLists : setPerimeters(list)
  \/ \E location \in Points, options \in OptionSets :
       CallCheckLocation(location, options)
  \/ \E location \in Points : CallGetClosestPerimeter(location)
  \/ \E location \in Points, operation \in Operations, options \in OptionSets :
       CallValidateClockOperation(location, operation, options)
  \/ UseResult

SpecPerimeter == Init /\ [][NextPerimeter]_vars

NextOwnership ==
  \/ \E list \in OwnedLists : setPerimeters(list)
  \/ \E location \in Points : CallCheckLocation(location, NoOptions)
  \/ getPerimeters
  \/ UseResult
  \/ \E perimeter \in PerimeterCatalogue : callerPush(perimeter)
  \/ callerPop
  \/ \E i \in 1..MaxPerimeters, radius \in EditedRadii : callerEdit(i, radius)
  \/ \E perimeter \in PerimeterCatalogue : copyPush(perimeter)
  \/ \E i \in 1..MaxPerimeters, radius \in EditedRadii : copyEdit(i, radius)

SpecOwnership == Init /\ [][NextOwnership]_vars

NextCrossing ==
  \/ \E list \in CrossingPerimeterLists : setPerimeters(list)
  \/ \E location \in ObservedPoints, raises \in BOOLEAN, notifyRaises \in BOOLEAN :
       simulateLocationUpdate(location, raises, notifyRaises)
  \/ \E k \in DOMAIN observations : ResumeLocationUpdate(k)

SpecCrossing == Init /\ [][NextCrossing]_vars

NextClearing ==
  \/ \E list \in CrossingPerimeterLists : setPerimeters(list)
  \/ \E location \in ObservedPoints, raises \in BOOLEAN, notifyRaises \in BOOLEAN :
       simulateLocationUpdate(location, raises, notifyRaises)
  \/ \E k \in DOMAIN observations : ResumeLocationUpdate(k)
  \/ clearData

SpecClearing == Init /\ [][NextClearing]_vars

NextPermission ==
  \/ \E queried \in PermissionStates : ensureLocationAccess(queried)
  \/ \E outcome \in RequestOutcomes : settlePositionRequest(outcome)
  \/ clearCache
  \/ \E ms \in {ShortWaitMs, cacheTimeout} : Elapse(ms)

SpecPermission == Init /\ [][NextPermission]_vars

NextMonitoring ==
  \/ \E list \in CrossingPerimeterLists : setPerimeters(list)
  \/ \E enableBackgroundFetch \in BOOLEAN :
       startRegionMonitoring(enableBackgroundFetch)
  \/ \E id \in starting, raises \in BOOLEAN : ResumeStart(id, raises)
  \/ stopRegionMonitoring
  \/ \E timer \in intervals, drift \in Drifts, notifyRaises \in BOOLEAN :
       performBackgroundLocationCheck(timer, drift, notifyRaises)
  \/ \E k \in DOMAIN observations : ResumeLocationUpdate(k)

SpecMonitoring == Init /\ [][NextMonitoring]_vars

Next ==
  \/ \E userId \in Users, location \in LedgerPoints, note \in Notes,
        options \in LedgerOptions, raises \in BOOLEAN :
       clockIn(userId, location, note, options, raises)
  \/ \E userId \in Users, location \in LedgerPoints, note \in Notes,
        options \in LedgerOptions, raises \in BOOLEAN :
       clockOut(userId, location, note, options, raises)
  \/ \E userId \in Users, managerUserId \in Managers, reason \in Reasons,
        raises \in BOOLEAN :
       forceClockOut(userId, managerUserId, reason, raises)
  \/ \E call \in pending : Return(call)
  \/ getAllShiftHistory
  \/ clearAllData
  \/ Tick
  \/ \E list \in LedgerPerimeterLists : setPerimeters(list)

Spec == Init /\ [][Next]_vars

\* the ClockManager in longer runs: the registry holds the perimeter Main
NextHistory ==
  \/ \E userId \in Users, location \in LedgerPoints, note \in Notes,
        options \in LedgerOptions, raises \in BOOLEAN :
       clockInLong(userId, location, note, options, raises)
  \/ \E userId \in Users, location \in LedgerPoints, note \in Notes,
        options \in LedgerOptions, raises \in BOOLEAN :
       clockOutLong(userId, location, note, options, raises)
  \/ \E call \in pending : Return(call)
  \/ getAllShiftHistory
  \/ Tick
  \/ setPerimeters(<<PerimeterMain>>)

SpecHistory == Init /\ [][NextHistory]_vars

-----------------------------------------------------------------------------
(* Properties of the ClockManager, under Spec *)

\* the locations and options the properties try the operations with: at the
\* centre and outside, without accuracy, with a high and with a low one; the
\* default options, a buffer, and no accuracy requirement
ProbePoints ==
  {p \in Points : /\ p.latitude \in {0, 120}
                   /\ p.accuracy \in {Undefined, Some(10), Some(100)}}

ProbeOptions ==
  {NoOptions,
   [NoOptions EXCEPT !.allowBuffer = Some(50)],
   [NoOptions EXCEPT !.requireHighAccuracy = Some(FALSE)]}

\* validateClockOperation and checkLocation read the registry alone: they are
\* tried with every point and option set in the states of an empty ledger,
\* which hold every registry
RegistryOnly == shiftHistory = <<>> /\ pending = {} /\ idsDrawn = 0 /\ now = 0

EventsOf(userId, type) ==
  {i \in DOMAIN shiftHistory :
     shiftHistory[i].userId = userId /\ shiftHistory[i].type = type}

\* shifts of the user opened and not closed, by the events of the history
OpenShifts(userId) ==
  Cardinality(EventsOf(userId, "clock_in"))
    - Cardinality(EventsOf(userId, "clock_out"))

\* the random suffix of an event id: ids are drawn in increasing order
Suffix(id) == id[3]

InHistory(eventId) ==
  \E i \in DOMAIN shiftHistory : shiftHistory[i].id = Get(eventId)

\* a clock_out of the user created between the events a and b
ClockOutBetween(userId, a, b) ==
  \E i \in EventsOf(userId, "clock_out") :
    LET s == Suffix(shiftHistory[i].id)
    IN \/ Suffix(Get(a)) < s /\ s < Suffix(Get(b))
       \/ Suffix(Get(b)) < s /\ s < Suffix(Get(a))

\* a clock_in of the user created after the event a
ClockInAfter(userId, a) ==
  \E i \in EventsOf(userId, "clock_in") :
    Suffix(shiftHistory[i].id) > Suffix(Get(a))

Failure(result, kind) ==
  /\ result.success = FALSE
  /\ result.error = Some(kind)
  /\ result.shift = Undefined
  /\ result.event = Undefined

\* C1: every user has at most one active shift (at most one shift opened and
\* not closed), and the shift stored as active for user u has userId u, status
\* "active" and no clockOut event.
C1_AtMostOneActiveShift ==
  \A u \in Users :
    /\ OpenShifts(u) \in {0, 1}
    /\ activeShifts[u] # Undefined =>
         /\ Get(activeShifts[u]).userId = u
         /\ Get(activeShifts[u]).status = "active"
         /\ Get(activeShifts[u]).clockOut = Undefined

\* both users hold an active shift at once
C1_Witness ==
  \A u \in Users : activeShifts[u] # Undefined /\ OpenShifts(u) = 1

\* C2: while a successful clockIn of a user is in flight and no clockOut of the
\* user has come since, every further clockIn of the user returns
\* ALREADY_CLOCKED_IN and records nothing; two successful clockIn calls of one
\* user are never in flight together unless a clockOut of the user lies between.
C2_ConcurrentClockIn ==
  \A A \in pending :
    (A.op = "clockIn" /\ A.success) =>
      LET u == A.userId
      IN /\ ( /\ activeShifts[u] # Undefined
              /\ Get(activeShifts[u]).clockIn.id = Get(A.eventId) ) =>
              \A location \in ProbePoints, options \in ProbeOptions, note \in Notes :
                LET outcome == clockInOutcome(u, location, note, options)
                IN /\ Failure(outcome.result, "ALREADY_CLOCKED_IN")
                   /\ outcome.shiftHistory = shiftHistory
                   /\ outcome.activeShifts = activeShifts
         /\ \A B \in pending :
              ( /\ B # A /\ B.op = "clockIn" /\ B.success /\ B.userId = u
                /\ InHistory(A.eventId) /\ InHistory(B.eventId) ) =>
                ClockOutBetween(u, A.eventId, B.eventId)

\* two clockIn calls of one user in flight: one succeeded, the other was refused
C2_Witness ==
  \E A, B \in pending :
    /\ A.op = "clockIn" /\ A.success
    /\ B.op = "clockIn" /\ B.userId = A.userId
    /\ B.error = Some("ALREADY_CLOCKED_IN")
    /\ Cardinality(EventsOf(A.userId, "clock_in")) = 1

\* C3: for a user with an active shift, clockIn fails with ALREADY_CLOCKED_IN
\* whatever location and options are supplied.
C3_AlreadyClockedIn ==
  \A u \in Users :
    activeShifts[u] # Undefined =>
      \A location \in ProbePoints, options \in ProbeOptions, note \in Notes :
        Failure(clockInOutcome(u, location, note, options).result,
                "ALREADY_CLOCKED_IN")

\* a second clockIn was refused after the first had returned, although no
\* location is valid any more
C3_Witness ==
  \E B \in pending :
    /\ B.op = "clockIn" /\ B.error = Some("ALREADY_CLOCKED_IN")
    /\ \A A \in pending : ~(A.op = "clockIn" /\ A.success)
    /\ activeShifts[B.userId] # Undefined
    /\ perimeters = <<>>

\* C4: for a user without an active shift, clockOut and forceClockOut fail with
\* NOT_CLOCKED_IN; and while a successful clockOut of the user is in flight (no
\* clockIn of the user since) the user has no active shift.
C4_NotClockedIn ==
  /\ \A u \in Users :
       activeShifts[u] = Undefined =>
         /\ \A location \in ProbePoints, options \in ProbeOptions, note \in Notes :
              LET outcome == clockOutOutcome(u, location, note, options)
              IN /\ Failure(outcome.result, "NOT_CLOCKED_IN")
                 /\ outcome.shiftHistory = shiftHistory
         /\ \A m \in Managers, r \in Reasons :
              Failure(forceClockOutOutcome(u, m, r).result, "NOT_CLOCKED_IN")
  /\ \A A \in pending :
       ( /\ A.op \in {"clockOut", "forceClockOut"} /\ A.success
         /\ ~ClockInAfter(A.userId, A.eventId) ) =>
         activeShifts[A.userId] = Undefined

\* a second clock-out of the user was refused while the first is in flight
C4_Witness ==
  \E A, B \in pending :
    /\ A.op = "clockOut" /\ A.success
    /\ B.op \in {"clockOut", "forceClockOut"} /\ B.userId = A.userId
    /\ B.error = Some("NOT_CLOCKED_IN")

\* C5: validateClockOperation allows clock_out for every point, accuracy and
\* option set under every registry, and clockOut succeeds for every user with
\* an active shift, from every location.
C5_ClockOutAlwaysAllowed ==
  /\ RegistryOnly =>
       \A location \in Points, options \in OptionSets :
         validateClockOperation(location, "clock_out", options).allowed = TRUE
  /\ \A u \in Users :
       activeShifts[u] # Undefined =>
         \A location \in ProbePoints, options \in ProbeOptions, note \in Notes :
           LET outcome == clockOutOutcome(u, location, note, options)
           IN /\ outcome.result.success
              /\ outcome.result.error = Undefined
              /\ Get(outcome.result.event).validationData.isLocationValid
              /\ Get(outcome.result.shift).status = "completed"
              /\ outcome.activeShifts[u] = Undefined

\* a clock-out from outside the work area is in the history
C5_Witness ==
  \E i \in DOMAIN shiftHistory :
    /\ shiftHistory[i].type = "clock_out"
    /\ shiftHistory[i].location.latitude = 120
    /\ shiftHistory[i].validationData.isLocationValid
    /\ shiftHistory[i].validationData.message
         = <<"Clocking out from outside work area">>

\* C6: validateClockOperation allows clock_in exactly when checkLocation says
\* isWithin; clockIn of a user without an active shift succeeds exactly then,
\* and otherwise returns LOCATION_INVALID with checkLocation's reason.
C6_ClockInGate ==
  /\ RegistryOnly =>
       \A location \in Points, options \in OptionSets :
         validateClockOperation(location, "clock_in", options).allowed
           = checkLocation(location, options).isWithin
  /\ \A location \in ProbePoints, options \in ProbeOptions :
       LET within == checkLocation(location, options)
           gate == validateClockOperation(location, "clock_in", options)
       IN \A u \in Users, note \in Notes :
            activeShifts[u] = Undefined =>
              LET outcome == clockInOutcome(u, location, note, options)
              IN IF within.isWithin
                 THEN /\ outcome.result.success
                      /\ outcome.result.error = Undefined
                      /\ outcome.activeShifts[u] = outcome.result.shift
                      /\ outcome.activeShifts[u] # Undefined
                 ELSE /\ Failure(outcome.result, "LOCATION_INVALID")
                      /\ outcome.result.message = within.message
                      /\ outcome.result.message = gate.message

\* a clockIn was refused for its location and another one succeeded
C6_Witness ==
  /\ \E A \in pending : A.op = "clockIn" /\ A.error = Some("LOCATION_INVALID")
  /\ \E B \in pending : B.op = "clockIn" /\ B.success

-----------------------------------------------------------------------------
(* Properties of the PerimeterManager, under SpecPerimeter *)

NoPerimetersMessage == <<"No work perimeters configured. Contact your manager.">>

\* the call held in query is a checkLocation
Checked == query.fn = "checkLocation"

\* the accuracy of the point is present and greater than the threshold in
\* force, and high accuracy is required
GateTrips(location, options) ==
  /\ Default(options.requireHighAccuracy, TRUE)
  /\ location.accuracy # Undefined
  /\ Get(location.accuracy) > Default(options.accuracyThreshold, 50)

DistanceTo(location, i) ==
  Abs(location.latitude - perimeters[i].centerLatitude)

\* the first perimeter, in registration order, among those at minimum distance
NearestIndex(location) ==
  CHOOSE i \in DOMAIN perimeters :
    /\ \A j \in DOMAIN perimeters : DistanceTo(location, i) <= DistanceTo(location, j)
    /\ \A j \in 1..(i - 1) : DistanceTo(location, j) > DistanceTo(location, i)

\* C7, as stated: with no perimeters registered and the default options,
\* checkLocation returns isWithin = false with the "no perimeters configured"
\* reason for every point and every accuracy.
C7_AsStated ==
  (Checked /\ perimeters = <<>> /\ query.options = NoOptions) =>
    /\ query.result.isWithin = FALSE
    /\ query.result.message = NoPerimetersMessage

\* C7, amended: with no perimeters registered and the default options,
\* checkLocation returns isWithin = false, infinite distance and no perimeter
\* for every point; the reason is "no perimeters configured" unless the
\* accuracy is present and greater than 50, and then it is the low accuracy.
C7_EmptyRegistry ==
  (Checked /\ perimeters = <<>> /\ query.options = NoOptions) =>
    /\ query.result.isWithin = FALSE
    /\ query.result.distance = Infinity
    /\ query.result.perimeter = Null
    /\ query.result.message =
         IF /\ query.location.accuracy # Undefined
            /\ Get(query.location.accuracy) > 50
         THEN <<"Location accuracy too low", Get(query.location.accuracy)>>
         ELSE NoPerimetersMessage

\* an inaccurate point checked against the empty registry
C7_Witness ==
  /\ Checked /\ perimeters = <<>> /\ query.options = NoOptions
  /\ query.location.accuracy = Some(100)
  /\ query.result.message = <<"Location accuracy too low", 100>>

\* C8: when high accuracy is required and the accuracy is present and greater
\* than the threshold, checkLocation returns isWithin = false, infinite
\* distance and no perimeter under every registry; otherwise its result is the
\* one of the same coordinates without accuracy and without the requirement.
C8_AccuracyGate ==
  Checked =>
    IF GateTrips(query.location, query.options)
    THEN /\ query.result.isWithin = FALSE
         /\ query.result.distance = Infinity
         /\ query.result.perimeter = Null
         /\ query.result.message =
              <<"Location accuracy too low", Get(query.location.accuracy)>>
    ELSE /\ query.result.message[1] # "Location accuracy too low"
         /\ query.result =
              checkLocation([query.location EXCEPT !.accuracy = Undefined],
                            [query.options EXCEPT
                               !.requireHighAccuracy = Some(FALSE)])

\* a point at the centre of the only perimeter, rejected for its accuracy
C8_Witness ==
  /\ Checked /\ perimeters = <<PerimeterMain>>
  /\ query.location.latitude = PerimeterMain.centerLatitude
  /\ query.options.requireHighAccuracy = Some(TRUE)
  /\ GateTrips(query.location, query.options)
  /\ query.result.isWithin = FALSE

\* C9: checkLocation (past the accuracy gate) and getClosestPerimeter return
\* the perimeter at minimum distance from the point, and among several at that
\* distance the first in registration order.
C9_NearestFirst ==
  ( /\ perimeters # <<>>
    /\ \/ query.fn = "getClosestPerimeter"
       \/ Checked /\ ~GateTrips(query.location, query.options) ) =>
    LET i == NearestIndex(query.location)
    IN /\ query.result.perimeter = Some(perimeters[i])
       /\ query.result.distance = DistanceTo(query.location, i)

\* two perimeters at the same distance: checkLocation returned the first
C9_Witness ==
  /\ Checked /\ Len(perimeters) = 2
  /\ ~GateTrips(query.location, query.options)
  /\ DistanceTo(query.location, 1) = DistanceTo(query.location, 2)
  /\ query.result.perimeter = Some(perimeters[1])

\* C10: past the accuracy gate, checkLocation returns isWithin exactly when
\* the distance to the selected perimeter is at most its radius plus
\* allowBuffer; 120 m from the centre of the 100 m perimeter is outside with
\* buffer 0 and inside with buffer 50.
C10_WithinRadiusPlusBuffer ==
  (Checked /\ perimeters # <<>> /\ ~GateTrips(query.location, query.options)) =>
    LET i == NearestIndex(query.location)
        allowBuffer == Default(query.options.allowBuffer, 0)
    IN /\ query.result.isWithin =
            (DistanceTo(query.location, i)
               <= perimeters[i].radiusInMeters + allowBuffer)
       /\ (perimeters = <<PerimeterMain>> /\ query.location.latitude = 120) =>
            (query.result.isWithin = (allowBuffer = 50))

\* a point exactly at radius plus buffer from the centre is within
C10_Witness ==
  /\ Checked /\ perimeters = <<PerimeterMain>>
  /\ ~GateTrips(query.location, query.options)
  /\ query.options.allowBuffer = Some(50)
  /\ DistanceTo(query.location, 1) = PerimeterMain.radiusInMeters + 50
  /\ query.result.isWithin = TRUE

\* some registered perimeter has the point within its radius plus the buffer
WithinSome(location, allowBuffer) ==
  \E i \in DOMAIN perimeters :
    DistanceTo(location, i) <= perimeters[i].radiusInMeters + allowBuffer

\* C11: past the accuracy gate, checkLocation returns isWithin = true whenever
\* at least one registered perimeter has its centre within radius plus
\* allowBuffer of the point.
C11_WithinAnyPerimeter ==
  (Checked /\ ~GateTrips(query.location, query.options)) =>
    ( WithinSome(query.location, Default(query.options.allowBuffer, 0))
        => query.result.isWithin = TRUE )

\* a point outside the nearest perimeter and inside a wider one further away:
\* checkLocation has answered that it is outside
C11_Witness ==
  /\ Checked /\ perimeters = <<PerimeterMain, PerimeterCampus>>
  /\ query.options = NoOptions
  /\ query.location.latitude = 120
  /\ query.location.accuracy = Undefined
  /\ WithinSome(query.location, 0)
  /\ query.result.isWithin = FALSE
  /\ query.result.perimeter = Some(PerimeterMain)

\* the list the registry was last given; none before the first setPerimeters
LastPassed == IF passedList = Null THEN <<>> ELSE Get(passedList)

\* the call held in query looked for the nearest perimeter
Searched ==
  \/ query.fn = "getClosestPerimeter"
  \/ Checked /\ ~GateTrips(query.location, query.options)

\* C22: the registry holds exactly the list last passed to setPerimeters
\* (the empty list before the first call), and the result of every call is
\* that of this one list: with the empty list no perimeter is found, and
\* otherwise the perimeter found is an entry of the list, at the distance of
\* that entry, and no entry of the list is nearer.
C22_ReplacedAtomically ==
  /\ perimeters = LastPassed
  /\ Searched =>
       IF LastPassed = <<>>
       THEN /\ query.result.perimeter = Null
            /\ query.result.distance = Infinity
            /\ Checked => query.result.message = NoPerimetersMessage
       ELSE \E i \in DOMAIN LastPassed :
              /\ query.result.perimeter = Some(LastPassed[i])
              /\ query.result.distance
                   = Abs(query.location.latitude - LastPassed[i].centerLatitude)
              /\ \A j \in DOMAIN LastPassed :
                   query.result.distance
                     <= Abs(query.location.latitude - LastPassed[j].centerLatitude)

\* the registry was given the list of the campus and the annex, and a point
\* was checked against it: the annex is found
C22_Witness ==
  /\ passedList = Some(<<PerimeterCampus, PerimeterAnnex>>)
  /\ Checked /\ query.options = NoOptions
  /\ query.location.latitude = 150
  /\ query.result.perimeter = Some(PerimeterAnnex)

-----------------------------------------------------------------------------
(* Properties of the BackgroundGeofenceService, under SpecCrossing *)

\* the observations whose check did not raise
Checkeds == {k \in DOMAIN observations : observations[k].isInPerimeter # Undefined}

\* the observation before k among those whose check did not raise, or 0
PreviousChecked(k) ==
  IF \E j \in Checkeds : j < k
  THEN CHOOSE j \in Checkeds : j < k /\ \A i \in Checkeds : i < k => i <= j
  ELSE 0

\* up to k, each observation was submitted after the earlier ones were processed
OneAtATime(k) == \A j \in 1..k : ~observations[j].overlapped

EventTypes(detected) == [i \in DOMAIN detected |-> detected[i].type]

\* the types of the events the observations from k on have emitted, in order
RECURSIVE EmittedFrom(_)
EmittedFrom(k) ==
  IF k > Len(observations) THEN <<>>
  ELSE EventTypes(observations[k].detected) \o EmittedFrom(k + 1)

PositionInside(location, registry) ==
  \E i \in DOMAIN registry :
    Abs(location.latitude - registry[i].centerLatitude)
      <= registry[i].radiusInMeters

\* C13: with the observations submitted one at a time against one registry,
\* an observation whose position is on the same side of the perimeter as the
\* position of the observation before it emits no event, whatever the
\* accuracies of the two.
C13_EdgeTriggered ==
  \A k \in Checkeds :
    LET j == PreviousChecked(k)
    IN ( /\ j # 0 /\ OneAtATime(k)
         /\ observations[j].registry = observations[k].registry
         /\ PositionInside(observations[j].location, observations[k].registry)
              = PositionInside(observations[k].location, observations[k].registry) )
         => observations[k].detected = <<>>

\* two observations at the centre of the perimeter, the second with an
\* accuracy beyond the threshold: the second emitted exit
C13_Witness ==
  /\ Len(observations) >= 2 /\ OneAtATime(2)
  /\ observations[1].registry = <<PerimeterMain>>
  /\ observations[2].registry = <<PerimeterMain>>
  /\ observations[1].location.latitude = 0
  /\ observations[1].location.accuracy = Some(10)
  /\ observations[2].location.latitude = 0
  /\ observations[2].location.accuracy = Some(100)
  /\ EventTypes(observations[2].detected) = <<"exit">>

\* the calls during which perimeterManager.checkLocation raised: they have no
\* containment answer
Raised == {k \in DOMAIN observations : observations[k].isInPerimeter = Undefined}

\* C14: a call of simulateLocationUpdate during which checkLocation raises
\* is not rejected and emits no event, and the calls after it are processed
\* as usual.
C14_FailureContained ==
  \A k \in Raised :
    /\ observations[k].status # "rejected"
    /\ observations[k].detected = <<>>
    /\ \A m \in DOMAIN observations :
         m > k /\ m \notin Raised =>
           observations[m].status \in {"pending", "resolved"}

\* checkLocation raised during the first call, whose promise was rejected;
\* the second call was processed and resolved
C14_Witness ==
  /\ Len(observations) >= 2
  /\ 1 \in Raised /\ observations[1].status = "rejected"
  /\ observations[1].detected = <<>>
  /\ 2 \notin Raised /\ observations[2].status = "resolved"

\* the event is stored in the history as it was created
Stored(event) == \E i \in DOMAIN shiftHistory : shiftHistory[i] = event

\* every event now in the history was created after the event of the call
ClearedSince(eventId) ==
  \A i \in DOMAIN shiftHistory :
    Suffix(shiftHistory[i].id) > Suffix(Get(eventId))

\* C15: in every state, those within the delay of a call included, the active
\* map and the history agree: the clockIn event of every active shift is in
\* the history, a user without an active shift has a clock_out event for
\* every clock_in event, and the event of every successful call still within
\* its delay is already in the history (unless the ledger was cleared since).
C15_CommittedBeforeDelay ==
  /\ \A u \in Users :
       IF activeShifts[u] # Undefined
       THEN /\ Stored(Get(activeShifts[u]).clockIn)
            /\ OpenShifts(u) = 1
       ELSE OpenShifts(u) = 0
  /\ \A A \in pending :
       A.success => InHistory(A.eventId) \/ ClearedSince(A.eventId)

\* a clockOut is within its delay: its event is already in the history after
\* the clock_in event of the shift, the user is already out of the active
\* map, and a clock-out of the user that interleaved was refused
C15_Witness ==
  \E A, B \in pending :
    /\ A.op = "clockOut" /\ A.success /\ InHistory(A.eventId)
    /\ activeShifts[A.userId] = Undefined
    /\ OpenShifts(A.userId) = 0
    /\ Cardinality(EventsOf(A.userId, "clock_in")) = 1
    /\ B.userId = A.userId /\ ~B.success

ErrorKinds ==
  {"ALREADY_CLOCKED_IN", "NOT_CLOCKED_IN", "LOCATION_INVALID", "SYSTEM_ERROR"}

\* the promise is fulfilled with a result which, unless it is a success,
\* carries one of the error kinds and a message
TypedResult(outcome) ==
  /\ outcome.settled = "fulfilled"
  /\ outcome.result.success = FALSE =>
       /\ outcome.result.error # Undefined
       /\ Get(outcome.result.error) \in ErrorKinds
       /\ outcome.result.message # Undefined
       /\ outcome.result.message # <<>>

\* C16: in every state, clockIn, clockOut and forceClockOut called with any
\* user, location, options, manager and reason, whether the perimeter
\* validation raises or not, fulfil their promise with a result that is a
\* success or carries an error kind among ALREADY_CLOCKED_IN, NOT_CLOCKED_IN,
\* LOCATION_INVALID and SYSTEM_ERROR, and a message; a call whose validation
\* raised changes nothing in the ledger.
C16_TypedFailures ==
  /\ \A A \in pending :
       /\ A.settled = "fulfilled"
       /\ ~A.success => A.error # Undefined /\ Get(A.error) \in ErrorKinds
  /\ \A u \in Users :
       /\ \A location \in ProbePoints, options \in ProbeOptions, note \in Notes :
            /\ TypedResult(clockInCall(u, location, note, options, FALSE))
            /\ TypedResult(clockOutCall(u, location, note, options, FALSE))
       /\ \A location \in LedgerPoints, note \in Notes :
            /\ TypedResult(clockInCall(u, location, note, NoOptions, TRUE))
            /\ TypedResult(clockOutCall(u, location, note, NoOptions, TRUE))
            /\ clockInCall(u, location, note, NoOptions, TRUE).shiftHistory
                 = shiftHistory
            /\ clockOutCall(u, location, note, NoOptions, TRUE).activeShifts
                 = activeShifts
       /\ \A m \in Managers, r \in Reasons, raises \in BOOLEAN :
            TypedResult(forceClockOutCall(u, m, r, raises))

\* the validation raised within a forceClockOut for a user with an active
\* shift: the call is about to resolve to SYSTEM_ERROR and the shift is still
\* active
C16_Witness ==
  \E A \in pending :
    /\ A.op = "forceClockOut" /\ A.error = Some("SYSTEM_ERROR")
    /\ A.settled = "fulfilled"
    /\ activeShifts[A.userId] # Undefined

IsPrefix(s, t) == Len(s) <= Len(t) /\ SubSeq(t, 1, Len(s)) = s

\* C17: every step other than clearAllData leaves the events already in the
\* history where they are and as they are, and adds at most one event, at
\* the end.
C17_AppendOnly ==
  [][ ~clearAllData =>
        /\ IsPrefix(shiftHistory, shiftHistory')
        /\ Len(shiftHistory') <= Len(shiftHistory) + 1 ]_vars

\* the clock_out event of a user stands in the stored history before the
\* clock_in event of the shift it closed
C17_Witness ==
  \E i, j \in DOMAIN shiftHistory :
    /\ i < j
    /\ shiftHistory[i].type = "clock_out"
    /\ shiftHistory[j].type = "clock_in"
    /\ shiftHistory[i].userId = shiftHistory[j].userId
    /\ Suffix(shiftHistory[j].id) < Suffix(shiftHistory[i].id)
    /\ pending = {}

\* what the ledger holds: the entries of the history and of the active map
Retained ==
  {shiftHistory[i] : i \in DOMAIN shiftHistory}
    \cup {Get(activeShifts[u]) : u \in {v \in Users : activeShifts[v] # Undefined}}

\* a completed shift closed by the event
CompletedBy(entry, event) ==
  /\ {"status", "clockOut", "totalHours"} \subseteq DOMAIN entry
  /\ entry.status = "completed"
  /\ entry.clockOut = Some(event)
  /\ entry.totalHours # Undefined

\* C18: for every clock_out event of the history, the shift it closed is out
\* of the active map and the ledger holds the completed shift (status
\* completed, with that clockOut event and its totalHours).
C18_CompletedShiftKept ==
  \A i \in DOMAIN shiftHistory :
    shiftHistory[i].type = "clock_out" =>
      /\ \A u \in Users :
           activeShifts[u] # Undefined =>
             Get(activeShifts[u]).clockOut # Some(shiftHistory[i])
      /\ \E entry \in Retained : CompletedBy(entry, shiftHistory[i])

\* a clockOut has succeeded and returned: the user is out of the active map
\* and the history holds the clock_in and the clock_out event
C18_Witness ==
  \E u \in Users :
    /\ pending = {}
    /\ activeShifts[u] = Undefined
    /\ Cardinality(EventsOf(u, "clock_in")) = 1
    /\ Cardinality(EventsOf(u, "clock_out")) = 1

\* the event is a clock_out of the user whose note tags it as forced by a
\* manager and contains the reason
ForcedClockOut(event, userId, reason) ==
  /\ event.type = "clock_out"
  /\ event.userId = userId
  /\ event.note # Undefined
  /\ Head(Get(event.note)) = "Force clock out by manager: "
  /\ \E w \in DOMAIN Get(event.note) : Get(event.note)[w] = reason

\* C19: for a user with an active shift, under every registry, forceClockOut
\* succeeds, takes the user out of the active map and leaves the others in
\* it, and appends to the history exactly one event, a clock_out of the user
\* whose note tags it as forced by a manager and contains the reason.
C19_ForceClockOut ==
  \A u \in Users :
    activeShifts[u] # Undefined =>
      \A m \in Managers, r \in Reasons :
        LET outcome == forceClockOutOutcome(u, m, r)
        IN /\ outcome.result.success = TRUE
           /\ outcome.result.error = Undefined
           /\ outcome.activeShifts = [activeShifts EXCEPT ![u] = Undefined]
           /\ Len(outcome.shiftHistory) = Len(shiftHistory) + 1
           /\ IsPrefix(shiftHistory, outcome.shiftHistory)
           /\ ForcedClockOut(outcome.shiftHistory[Len(outcome.shiftHistory)], u, r)
           /\ outcome.result.event
                = Some(outcome.shiftHistory[Len(outcome.shiftHistory)])

\* a forceClockOut succeeded with no perimeter registered: its event closes
\* the history and the user is out of the active map
C19_Witness ==
  \E A \in pending :
    /\ A.op = "forceClockOut" /\ A.success
    /\ perimeters = <<>>
    /\ activeShifts[A.userId] = Undefined
    /\ shiftHistory # <<>>
    /\ shiftHistory[Len(shiftHistory)].id = Get(A.eventId)
    /\ \E r \in Reasons :
         ForcedClockOut(shiftHistory[Len(shiftHistory)], A.userId, r)

\* C20: for a user with an active shift, forced clock-outs by two different
\* managers with the same reason differ in the clock_out event they append
\* to the history or in the completed shift they produce.
C20_ManagerRecorded ==
  \A u \in Users :
    activeShifts[u] # Undefined =>
      \A m1, m2 \in Managers, r \in Reasons :
        m1 # m2 =>
          \/ forceClockOutOutcome(u, m1, r).shiftHistory
               # forceClockOutOutcome(u, m2, r).shiftHistory
          \/ forceClockOutOutcome(u, m1, r).result.shift
               # forceClockOutOutcome(u, m2, r).result.shift

\* a forced clock-out has returned: its event is the last of the history,
\* and nothing in the ledger names a manager
C20_Witness ==
  /\ pending = {}
  /\ shiftHistory # <<>>
  /\ \E u \in Users, r \in Reasons :
       /\ ForcedClockOut(shiftHistory[Len(shiftHistory)], u, r)
       /\ activeShifts[u] = Undefined
       /\ \A m \in Managers, w \in DOMAIN Get(shiftHistory[Len(shiftHistory)].note) :
            Get(shiftHistory[Len(shiftHistory)].note)[w] # m

\* milliseconds since the epoch of a timestamp, read off its text
Millis(timestamp) == timestamp.iso

\* C21: for a user with an active shift, from every location, the completed
\* shift a successful clockOut returns carries totalHours = (timestamp of its
\* clockOut event - timestamp of its clockIn event) / 3,600,000, the clockIn
\* event being that of the active shift; it is not negative when the
\* clockOut is not earlier than the clockIn.
C21_TotalHours ==
  \A u \in Users :
    activeShifts[u] # Undefined =>
      \A location \in ProbePoints, options \in ProbeOptions, note \in Notes :
        LET result == clockOutOutcome(u, location, note, options).result
            shift == Get(result.shift)
            hours == Get(shift.totalHours)
            elapsed == Millis(Get(shift.clockOut).timestamp)
                         - Millis(shift.clockIn.timestamp)
        IN /\ result.success = TRUE
           /\ shift.clockIn = Get(activeShifts[u]).clockIn
           /\ shift.clockOut = result.event
           /\ hours.per = 3600000
           /\ hours.ms = elapsed
           /\ elapsed >= 0 => hours.ms >= 0

\* a shift opened half an hour ago is active: a clockOut now returns half an
\* hour
C21_Witness ==
  \E u \in Users :
    /\ activeShifts[u] # Undefined
    /\ now - Millis(Get(activeShifts[u]).clockIn.timestamp) = 1800000
    /\ pending = {}
    /\ idsDrawn < MaxEvents

\* the last observation whose check did not raise, or 0
LastChecked == PreviousChecked(Len(observations) + 1)

\* C24: every observation, also one submitted while the processing of an
\* earlier one is pending, is compared with the containment of the
\* observation submitted immediately before it (one event when the two
\* differ, none when they are equal); and once every observation is
\* processed, the stored containment is that of the last one submitted,
\* whether or not it emitted an event.
C24_LastContainment ==
  /\ \A k \in Checkeds :
       LET j == PreviousChecked(k)
           inside == Get(observations[k].isInPerimeter)
           emitted == EventTypes(observations[k].detected)
       IN j # 0 =>
            IF Get(observations[j].isInPerimeter) = inside THEN emitted = <<>>
            ELSE IF inside THEN emitted = <<"enter">>
            ELSE emitted = <<"exit">>
  /\ (~Processing /\ LastChecked # 0) =>
       lastPerimeterState = observations[LastChecked].isInPerimeter

\* inside, then outside (exit, its processing pending), then outside again
\* while the exit is pending: the third observation was compared with the
\* first and emitted a second exit
C24_Witness ==
  /\ Len(observations) = 3
  /\ observations[1].isInPerimeter = Some(TRUE)
  /\ observations[2].isInPerimeter = Some(FALSE)
  /\ observations[3].isInPerimeter = Some(FALSE)
  /\ observations[3].overlapped
  /\ EventTypes(observations[2].detected) = <<"exit">>
  /\ EventTypes(observations[3].detected) = <<"exit">>

\* the time entry is the one of the event: clock_in for enter and clock_out
\* for exit, triggered in the background, at the coordinates of the observation
EntryOf(entry, event, location) ==
  /\ entry.type = IF event.type = "enter" THEN "clock_in" ELSE "clock_out"
  /\ entry.backgroundTriggered = TRUE
  /\ entry.locationLat = location.latitude
  /\ entry.locationLon = location.longitude
  /\ entry.perimeterId = event.perimeterId

\* C26: once no processing is pending, there are as many time entries as
\* events, and every event an observation emitted has its time entry.
C26_OneTimeEntryPerEvent ==
  ~Processing =>
    /\ Len(timeEntries) = Len(events)
    /\ \A k \in Checkeds :
         \A e \in DOMAIN observations[k].detected :
           \E i \in DOMAIN timeEntries :
             EntryOf(timeEntries[i], observations[k].detected[e],
                     observations[k].location)

\* an observation emitted enter, the notification of the event raised, and
\* the processing is over: one event and no time entry
C26_Witness ==
  /\ ~Processing
  /\ \E k \in Checkeds :
       /\ observations[k].notifyRaised
       /\ EventTypes(observations[k].detected) = <<"enter">>
  /\ Len(events) = 1
  /\ timeEntries = <<>>

-----------------------------------------------------------------------------
(* Properties of clearData, under SpecClearing *)

\* the calls of clearData in the log
Clears == {k \in DOMAIN observations : observations[k].status = "cleared"}

\* C27: while clearData is the last call made, the service holds no event
\* and no time entry, its last location (hence lastCheck) is null and its
\* last containment unknown; and the observation submitted next after a
\* clearData emits no event; also when a processing was pending at the
\* time of the clearData.
C27_ClearData ==
  /\ (observations # <<>> /\ Len(observations) \in Clears) =>
       /\ events = <<>>
       /\ timeEntries = <<>>
       /\ lastLocation = Null
       /\ lastPerimeterState = Null
  /\ \A k \in Clears :
       (k + 1 \in DOMAIN observations /\ k + 1 \in Checkeds) =>
         observations[k + 1].detected = <<>>

\* clearData was called while the processing of an exit was pending and no
\* observation was submitted since: the processing has finished, and the
\* service holds a time entry and a containment
C27_Witness ==
  /\ observations # <<>> /\ Len(observations) \in Clears
  /\ observations[Len(observations)].overlapped
  /\ ~Processing
  /\ events = <<>>
  /\ Len(timeEntries) = 1
  /\ timeEntries[1].type = "clock_out"
  /\ lastPerimeterState = Some(FALSE)

-----------------------------------------------------------------------------
(* Properties of the PerimeterManager and its callers, under SpecOwnership *)

\* C23: the list the registry evaluates changes in a setPerimeters step only:
\* no other step, whatever the caller does with the array it passed or with
\* the array getPerimeters returned, changes the list or the result of
\* checkLocation for any point.
C23_ExclusiveOwner ==
  [][ (\E list \in OwnedLists : setPerimeters(list))
      \/ /\ perimeters' = perimeters
         /\ \A location \in ProbePoints :
              checkLocation(location, NoOptions)'
                = checkLocation(location, NoOptions) ]_vars

\* the list [Main] was passed and the caller then emptied its array: a point
\* at the centre of Main is checked against no perimeter
C23_Witness ==
  /\ passedList = Some(<<PerimeterMain>>)
  /\ perimeters = <<>>
  /\ Checked /\ query.location.latitude = 0
  /\ query.location.accuracy = Some(10)
  /\ query.result.isWithin = FALSE
  /\ query.result.message = NoPerimetersMessage

-----------------------------------------------------------------------------
(* Properties of the region monitoring, under SpecMonitoring *)

\* C25: at most one interval timer is live at any time, and none is live
\* while monitoring is stopped, whether or not a call of
\* startRegionMonitoring is still awaiting its registration.
C25_SingleInstance ==
  /\ Cardinality(intervals) <= 1
  /\ ~isMonitoring => intervals = {}

\* two interval timers are live, and the field refers to the second only:
\* the first start was followed by a stop and a second start while it was
\* awaiting its registration
C25_Witness ==
  /\ intervals = {1, 2}
  /\ monitoringInterval = Some(2)
  /\ starting = {}
  /\ isMonitoring

-----------------------------------------------------------------------------
(* LocationService: backoff of the permission requests *)

-----------------------------------------------------------------------------
(* ClockManager: the calls that fail *)

\* C29: a step in which clockIn, clockOut or forceClockOut returns a result
\* with success = false (the call joins the pending ones with its failure)
\* leaves the active shifts and the event history of every user as they were.
C29_FailureChangesNothing ==
  [][ \A call \in pending' \ pending :
        ~call.success =>
          /\ activeShifts' = activeShifts
          /\ shiftHistory' = shiftHistory ]_vars

\* a clockIn refused for its location is about to return, while another user
\* has a shift open and an event in the history
C29_Witness ==
  \E A \in pending :
    /\ A.op = "clockIn" /\ A.error = Some("LOCATION_INVALID")
    /\ activeShifts[A.userId] = Undefined
    /\ \E u \in Users : u # A.userId /\ activeShifts[u] # Undefined
    /\ Len(shiftHistory) = 1

-----------------------------------------------------------------------------
(* ClockManager: the events counted *)

\* the user's events in the stored history, by their positions
PositionsOf(userId) ==
  {i \in DOMAIN shiftHistory : shiftHistory[i].userId = userId}

\* the clock_in events of the user not closed by a clock_out are none or one,
\* and one exactly when the user has an active shift
Balanced(userId) ==
  /\ OpenShifts(userId) \in {0, 1}
  /\ OpenShifts(userId) = 1 <=> activeShifts[userId] # Undefined

\* the last of the user's events in the stored history is the clock_in event
\* of the active shift
LastIsClockIn(userId) ==
  /\ PositionsOf(userId) # {}
  /\ LET last == CHOOSE i \in PositionsOf(userId) :
                   \A j \in PositionsOf(userId) : j <= i
     IN shiftHistory[last] = Get(activeShifts[userId]).clockIn

====
